---- MODULE Spec2Model ----
(***************************************************************************)
(* Model of the ESG PDF indexing pipeline, src/add_documents_to_index.py:  *)
(* chunk_text, get_esg_metadata, get_embeddings and main.                  *)
(*                                                                         *)
(* Strings that the code inspects (file names) are sequences of one-       *)
(* character strings.  A text is known by its token count T under the      *)
(* tokenizer; a chunk is either the text itself (whole = TRUE) or the      *)
(* decoding of the token window [from, to) (whole = FALSE).                *)
(***************************************************************************)
EXTENDS Integers, Sequences, FiniteSets, TLC

VARIABLES
  pc,               \* position of main: "start", "files", "upload", "done"
  env,              \* names of the environment variables that are set
  directory,        \* ESG_DATA_DIR: whether it exists, what glob("*.pdf") gives
  pdf_files,        \* main: pdf_files
  file_index,       \* main: number of files the for loop has taken
  all_documents,    \* main: all_documents
  processed_files,  \* main: processed_files
  file_log,         \* what main printed for each file taken so far
  i,                \* main: offset i of the upload loop
  total_uploaded,   \* main: total_uploaded
  submitted,        \* number of upload_documents calls issued
  batch_log,        \* what main printed for the last batch
  raised_documents, \* documents of the batches whose upload call raised
  outcome,          \* what main printed last: diagnostic or final summary
  faults,           \* number of service / IO failures injected so far
  fn_in,            \* argument of the pure function under check
  fn_out            \* its result

vars == <<pc, env, directory, pdf_files, file_index, all_documents,
          processed_files, file_log, i, total_uploaded, submitted, batch_log, raised_documents,
          outcome, faults, fn_in, fn_out>>

mainVars == <<pc, env, directory, pdf_files, file_index, all_documents,
              processed_files, file_log, i, total_uploaded, submitted,
              batch_log, raised_documents, outcome, faults>>

fnVars == <<fn_in, fn_out>>

----------------------------------------------------------------------------
(* Bounds of the model *)

\* service / IO failures (extraction, tokenizer, embedding, stat, upload) per run
MaxFaults == 1
\* token counts of the small texts given to chunk_text
MaxTokens == 7
\* max_tokens and overlap values of the small calls of chunk_text
MaxWindow == 3
\* pieces a file name given to get_esg_metadata is made of
MaxPieces == 3

----------------------------------------------------------------------------
(* Program constants *)

max_chunks == 1000
default_max_tokens == 800
default_overlap == 150
batch_size == 5
default_year == 2024

Min(a, b) == IF a < b THEN a ELSE b
Max(a, b) == IF a > b THEN a ELSE b

----------------------------------------------------------------------------
(* chunk_text *)

\* tokens[s:e] of a list of n tokens, Python slice semantics: the window
\* of token positions it selects, <<0, 0>> when it selects nothing
PySlice(n, s, e) ==
  LET norm(x) == IF x < 0 THEN Max(x + n, 0) ELSE Min(x, n)
      lo == norm(s)
      hi == norm(e)
  IN IF hi <= lo THEN <<0, 0>> ELSE <<lo, hi>>

\* the input text itself, T tokens long
WholeText(T) == [whole |-> TRUE, from |-> 0, to |-> T]

\* tokenizer.decode(tokens[start:end])
DecodeSlice(T, start, end) ==
  LET w == PySlice(T, start, end)
  IN [whole |-> FALSE, from |-> w[1], to |-> w[2]]

\* number of tokens a chunk holds
TokenCount(chunk) == chunk.to - chunk.from

LoopCondOffByOne(T, start, chunk_num) ==
  start < T /\ chunk_num <= max_chunks

\* while start < len(tokens) and chunk_num < max_chunks
LoopCond(T, start, chunk_num) ==
  start < T /\ chunk_num < max_chunks

WindowEndNoClamp(T, max_tokens, start) == start + max_tokens

\* end = min(start + max_tokens, len(tokens))
WindowEnd(T, max_tokens, start) == Min(start + max_tokens, T)

NextStartNoOverlap(end, overlap) == end

\* start = end - overlap
NextStart(end, overlap) == end - overlap

\* one evaluation of the while condition and, when it holds, of the body
LoopBody(T, max_tokens, overlap, s) ==
  IF s.done \/ ~LoopCond(T, s.start, s.chunk_num)
  THEN [s EXCEPT !.done = TRUE]
  ELSE LET end == WindowEnd(T, max_tokens, s.start)
           start2 == NextStart(end, overlap)
       IN [start     |-> start2,
           chunk_num |-> s.chunk_num + 1,
           chunks    |-> Append(s.chunks, DecodeSlice(T, s.start, end)),
           done      |-> start2 >= T]

\* the while loop, run in blocks of 32 iterations so that the evaluation
\* depth stays small: 32 * 32 > max_chunks + 1 evaluations of the condition
RECURSIVE LoopBlock(_, _, _, _, _)
LoopBlock(T, max_tokens, overlap, s, n) ==
  IF n = 0 THEN s
  ELSE LET s2 == LoopBody(T, max_tokens, overlap, s)
       IN IF s2.done THEN s2 ELSE LoopBlock(T, max_tokens, overlap, s2, n - 1)

RECURSIVE ChunkLoop(_, _, _, _, _)
ChunkLoop(T, max_tokens, overlap, s, n) ==
  IF n = 0 THEN s
  ELSE LET s2 == LoopBlock(T, max_tokens, overlap, s, 32)
       IN IF s2.done THEN s2 ELSE ChunkLoop(T, max_tokens, overlap, s2, n - 1)

SingleChunkReencoded(T) == <<DecodeSlice(T, 0, T)>>

\* return [text]
SingleChunk(T) == <<WholeText(T)>>

FitsSingleChunkStrict(T, max_tokens) == T < max_tokens

\* if len(tokens) <= max_tokens
FitsSingleChunk(T, max_tokens) == T <= max_tokens

\* chunk_text(text, max_tokens, overlap) for a text of T tokens; tok_ok is
\* FALSE when the tokenizer raises.  chunks: the list returned; warned: the
\* truncation warning was printed; windows: the while loop ran; last_start:
\* start when the loop ended
chunk_text(T, max_tokens, overlap, tok_ok) ==
  IF ~tok_ok
  THEN [chunks |-> SingleChunk(T), warned |-> FALSE, windows |-> FALSE,
        last_start |-> 0]
  ELSE IF FitsSingleChunk(T, max_tokens)
  THEN [chunks |-> SingleChunk(T), warned |-> FALSE, windows |-> FALSE,
        last_start |-> 0]
  ELSE LET s == ChunkLoop(T, max_tokens, overlap,
                          [start |-> 0, chunk_num |-> 0, chunks |-> <<>>,
                           done |-> FALSE], 32)
       IN [chunks |-> s.chunks, warned |-> s.chunk_num >= max_chunks,
           windows |-> TRUE, last_start |-> s.start]

----------------------------------------------------------------------------
(* get_esg_metadata *)

UpperLetters == <<"A", "B", "C", "D", "E", "F", "G", "H", "I", "J", "K", "L", "M", "N", "O", "P", "Q", "R", "S", "T", "U", "V", "W", "X", "Y", "Z">>
LowerLetters == <<"a", "b", "c", "d", "e", "f", "g", "h", "i", "j", "k", "l", "m", "n", "o", "p", "q", "r", "s", "t", "u", "v", "w", "x", "y", "z">>
Digits == <<"0", "1", "2", "3", "4", "5", "6", "7", "8", "9">>

\* position of c in the sequence s, 0 when c is not in s
IndexOf(s, c) ==
  IF \E k \in 1..Len(s) : s[k] = c
  THEN CHOOSE k \in 1..Len(s) : s[k] = c /\ \A j \in 1..(k - 1) : s[j] # c
  ELSE 0

LowerIdentity(s) == s

\* str.lower()
Lower(s) ==
  [k \in 1..Len(s) |->
     IF IndexOf(UpperLetters, s[k]) = 0 THEN s[k]
     ELSE LowerLetters[IndexOf(UpperLetters, s[k])]]

\* sub in s
Contains(s, sub) ==
  \E k \in 1..(Len(s) - Len(sub) + 1) : SubSeq(s, k, k + Len(sub) - 1) = sub

\* any(term in s for term in terms)
ContainsAny(s, terms) == \E k \in 1..Len(terms) : Contains(s, terms[k])

kw_gri == <<"g", "r", "i">>
kw_sasb == <<"s", "a", "s", "b">>
kw_tcfd == <<"t", "c", "f", "d">>
kw_sustainability == <<"s", "u", "s", "t", "a", "i", "n", "a", "b", "i", "l", "i", "t", "y">>
kw_esg == <<"e", "s", "g">>
kw_climate == <<"c", "l", "i", "m", "a", "t", "e">>

\* the company list, with company.title() of each
companies ==
  <<[name |-> <<"m", "i", "c", "r", "o", "s", "o", "f", "t">>, title |-> "Microsoft"],
    [name |-> <<"a", "p", "p", "l", "e">>, title |-> "Apple"],
    [name |-> <<"g", "o", "o", "g", "l", "e">>, title |-> "Google"],
    [name |-> <<"a", "m", "a", "z", "o", "n">>, title |-> "Amazon"],
    [name |-> <<"t", "e", "s", "l", "a">>, title |-> "Tesla"],
    [name |-> <<"n", "v", "i", "d", "i", "a">>, title |-> "Nvidia"],
    [name |-> <<"m", "e", "t", "a">>, title |-> "Meta"]>>

company_names == [k \in 1..Len(companies) |-> companies[k].name]

environment_terms ==
  <<<<"c", "l", "i", "m", "a", "t", "e">>,
    <<"c", "a", "r", "b", "o", "n">>,
    <<"e", "n", "v", "i", "r", "o", "n", "m", "e", "n", "t">>,
    <<"g", "r", "e", "e", "n">>>>

social_terms ==
  <<<<"d", "i", "v", "e", "r", "s", "i", "t", "y">>,
    <<"s", "o", "c", "i", "a", "l">>,
    <<"i", "n", "c", "l", "u", "s", "i", "o", "n">>,
    <<"c", "o", "m", "m", "u", "n", "i", "t", "y">>>>

governance_terms ==
  <<<<"g", "o", "v", "e", "r", "n", "a", "n", "c", "e">>,
    <<"b", "o", "a", "r", "d">>,
    <<"e", "t", "h", "i", "c", "s">>,
    <<"c", "o", "m", "p", "l", "i", "a", "n", "c", "e">>>>

\* institution of the first company of the list that the name contains
FirstCompany(filename) ==
  LET k == CHOOSE k \in 1..Len(companies) :
             /\ Contains(filename, companies[k].name)
             /\ \A j \in 1..(k - 1) : ~Contains(filename, companies[j].name)
  IN companies[k].title

IsDigit(c) == IndexOf(Digits, c) # 0
DigitValue(c) == IndexOf(Digits, c) - 1

\* a match of 20\d{2} starts at position k of s
YearAt(s, k) ==
  /\ k + 3 <= Len(s)
  /\ s[k] = "2" /\ s[k + 1] = "0"
  /\ IsDigit(s[k + 2]) /\ IsDigit(s[k + 3])

\* re.search(r'20\d{2}', filename): the year of the leftmost match, else
\* the default
ExtractYear(s) ==
  IF \E k \in 1..Len(s) : YearAt(s, k)
  THEN LET k == CHOOSE k \in 1..Len(s) :
                  YearAt(s, k) /\ \A j \in 1..(k - 1) : ~YearAt(s, j)
       IN 2000 + 10 * DigitValue(s[k + 2]) + DigitValue(s[k + 3])
  ELSE default_year

default_metadata ==
  [institution |-> "Unknown", document_type |-> "ESG Document",
   tags |-> "esg,sustainability"]

\* the framework branches of the if / elif chain; "none" when none applies
FrameworkRuleTopicFirst(filename) ==
  IF ContainsAny(filename, environment_terms) THEN "none"
  ELSE IF Contains(filename, kw_gri) THEN "gri"
  ELSE IF Contains(filename, kw_sasb) THEN "sasb"
  ELSE IF Contains(filename, kw_tcfd) THEN "tcfd"
  ELSE "none"

FrameworkRule(filename) ==
  IF Contains(filename, kw_gri) THEN "gri"
  ELSE IF Contains(filename, kw_sasb) THEN "sasb"
  ELSE IF Contains(filename, kw_tcfd) THEN "tcfd"
  ELSE "none"

FrameworkMetadata(rule) ==
  CASE rule = "gri" ->
         [institution |-> "Global Reporting Initiative",
          document_type |-> "GRI Standards",
          tags |-> "gri,standards,sustainability,reporting"]
    [] rule = "sasb" ->
         [institution |-> "Sustainability Accounting Standards Board",
          document_type |-> "SASB Standards",
          tags |-> "sasb,standards,sustainability,accounting"]
    [] rule = "tcfd" ->
         [institution |-> "Task Force on Climate-related Financial Disclosures",
          document_type |-> "TCFD Framework",
          tags |-> "tcfd,climate,risk,disclosure"]

\* the company branch
CorporateMetadata(filename) ==
  LET m == [default_metadata EXCEPT !.institution = FirstCompany(filename)]
  IN IF Contains(filename, kw_sustainability) \/ Contains(filename, kw_esg)
     THEN [m EXCEPT !.document_type = "Corporate ESG Report",
                    !.tags = "corporate,esg,sustainability,report"]
     ELSE IF Contains(filename, kw_climate)
     THEN [m EXCEPT !.document_type = "Climate Report",
                    !.tags = "climate,corporate,environmental"]
     ELSE m

\* the topic branches
TopicMetadata(filename) ==
  IF ContainsAny(filename, environment_terms)
  THEN [default_metadata EXCEPT !.document_type = "Environmental Report",
                                !.tags = "environmental,climate,carbon,green"]
  ELSE IF ContainsAny(filename, social_terms)
  THEN [default_metadata EXCEPT !.document_type = "Social Impact Report",
                                !.tags = "social,diversity,inclusion,community"]
  ELSE IF ContainsAny(filename, governance_terms)
  THEN [default_metadata EXCEPT !.document_type = "Governance Report",
                                !.tags = "governance,ethics,compliance,board"]
  ELSE default_metadata

\* get_esg_metadata(file_path), name = file_path.name
get_esg_metadata(name) ==
  LET filename == Lower(name)
      rule == FrameworkRule(filename)
      m == IF rule # "none" THEN FrameworkMetadata(rule)
           ELSE IF ContainsAny(filename, company_names)
           THEN CorporateMetadata(filename)
           ELSE TopicMetadata(filename)
  IN [institution |-> m.institution, document_type |-> m.document_type,
      year |-> ExtractYear(filename), tags |-> m.tags]

\* the pieces the file names given to get_esg_metadata are made of
NamePieces ==
  {<<"G", "R", "I">>,
   <<"g", "r", "i">>,
   <<"S", "a", "s", "b">>,
   <<"T", "C", "F", "D">>,
   <<"T", "e", "s", "l", "a">>,
   <<"m", "e", "t", "a">>,
   <<"c", "l", "i", "m", "a", "t", "e">>,
   <<"e", "s", "g">>,
   <<"b", "o", "a", "r", "d">>,
   <<"2", "0", "2", "3">>,
   <<"2", "0">>,
   <<"1", "9">>,
   <<"_">>}

----------------------------------------------------------------------------
(* get_embeddings *)

\* get_embeddings: response.raised when embeddings.create raises, else
\* response.vector is the vector the service returned
get_embeddings(response) == IF response.raised THEN <<>> ELSE response.vector

----------------------------------------------------------------------------
(* main: the world it runs in *)

\* the four variables main checks
required_vars ==
  <<"AZURE_SEARCH_ENDPOINT", "AZURE_SEARCH_KEY",
    "AZURE_OPENAI_EMBEDDINGS_ENDPOINT", "AZURE_OPENAI_EMBEDDINGS_API_KEY">>

\* the two variables main reads with a default
defaulted_vars ==
  {"AZURE_OPENAI_API_VERSION", "AZURE_OPENAI_EMBEDDINGS_DEPLOYMENT_NAME"}

EnvVars == {required_vars[k] : k \in 1..Len(required_vars)} \cup defaulted_vars

\* PDF files: file_path.name, as a string and spelled out for the functions
\* that look into it, and the token count of the text extract_pdf_content
\* gives for it (0: no text)
f_long ==
  [name |-> "gri.pdf", spelling |-> <<"g", "r", "i", ".", "p", "d", "f">>,
   tokens |-> 1200]
f_short ==
  [name |-> "a.pdf", spelling |-> <<"a", ".", "p", "d", "f">>,
   tokens |-> 50]
f_exact ==
  [name |-> "x.pdf", spelling |-> <<"x", ".", "p", "d", "f">>,
   tokens |-> 800]
f_blank ==
  [name |-> "o.pdf", spelling |-> <<"o", ".", "p", "d", "f">>,
   tokens |-> 0]
f_b ==
  [name |-> "b.pdf", spelling |-> <<"b", ".", "p", "d", "f">>,
   tokens |-> 50]
f_c ==
  [name |-> "c.pdf", spelling |-> <<"c", ".", "p", "d", "f">>,
   tokens |-> 50]
f_d ==
  [name |-> "d.pdf", spelling |-> <<"d", ".", "p", "d", "f">>,
   tokens |-> 50]
f_e ==
  [name |-> "e.pdf", spelling |-> <<"e", ".", "p", "d", "f">>,
   tokens |-> 50]

\* directory listings without a multi-chunk document
ShortListings ==
  {<<>>, <<f_short>>, <<f_blank>>, <<f_short, f_exact>>, <<f_exact, f_short>>,
   <<f_blank, f_short>>, <<f_short, f_blank>>,
   <<f_short, f_exact, f_b, f_c, f_d, f_e>>}

\* directory listings with a multi-chunk document
LongListings == {<<f_long, f_short>>}

AllSet == EnvVars

\* the files of the listings
Files ==
  UNION {{l[k] : k \in 1..Len(l)} : l \in ShortListings \cup LongListings}

\* get_esg_metadata(file_path) for each file, evaluated once
metadata_of == [file \in Files |-> get_esg_metadata(file.spelling)]

\* chunk_text(text, max_tokens=800, overlap=150) for each file with text and
\* each behaviour of the tokenizer, evaluated once
chunks_of ==
  [file \in {f \in Files : f.tokens > 0}, tok_ok \in BOOLEAN |->
     chunk_text(file.tokens, default_max_tokens, default_overlap, tok_ok).chunks]

\* the states main can start in: any environment with a short listing or
\* no directory, the complete environment with a long listing
InitMain ==
  /\ \/ /\ env \in SUBSET EnvVars
        /\ \/ directory = [exists |-> FALSE, listing |-> <<>>]
           \/ \E l \in ShortListings : directory = [exists |-> TRUE, listing |-> l]
     \/ /\ env = AllSet
        /\ \E l \in LongListings : directory = [exists |-> TRUE, listing |-> l]
  /\ pc = "start"
  /\ pdf_files = <<>>
  /\ file_index = 0
  /\ all_documents = <<>>
  /\ processed_files = 0
  /\ file_log = <<>>
  /\ i = 0
  /\ total_uploaded = 0
  /\ submitted = 0
  /\ batch_log = [batch_num |-> 0, first |-> 0, last |-> 0, batch |-> <<>>,
                  raised |-> FALSE, result |-> <<>>, success_count |-> 0,
                  error_count |-> 0]
  /\ raised_documents = 0
  /\ outcome = [kind |-> "none"]
  /\ faults = 0

----------------------------------------------------------------------------
(* main: pre-flight *)

MissingVarsFirstOnly ==
  SubSeq(SelectSeq(required_vars, LAMBDA v : v \notin env), 1, 1)

\* missing_vars = [var for var in required_vars if not os.getenv(var)]
missing_vars == SelectSeq(required_vars, LAMBDA v : v \notin env)

MissingConfig ==
  /\ pc = "start"
  /\ missing_vars # <<>>
  /\ outcome' = [kind |-> "missing_env", missing |-> missing_vars]
  /\ pc' = "done"
  /\ UNCHANGED <<env, directory, pdf_files, file_index, all_documents,
                 processed_files, file_log, i, total_uploaded, submitted,
                 batch_log, raised_documents, faults, fn_in, fn_out>>

DirectoryNotFound ==
  /\ pc = "start"
  /\ missing_vars = <<>>
  /\ ~directory.exists
  /\ outcome' = [kind |-> "no_directory"]
  /\ pc' = "done"
  /\ UNCHANGED <<env, directory, pdf_files, file_index, all_documents,
                 processed_files, file_log, i, total_uploaded, submitted,
                 batch_log, raised_documents, faults, fn_in, fn_out>>

NoPdfFiles ==
  /\ pc = "start"
  /\ missing_vars = <<>>
  /\ directory.exists
  /\ directory.listing = <<>>
  /\ outcome' = [kind |-> "no_pdf_files"]
  /\ pc' = "done"
  /\ UNCHANGED <<env, directory, pdf_files, file_index, all_documents,
                 processed_files, file_log, i, total_uploaded, submitted,
                 batch_log, raised_documents, faults, fn_in, fn_out>>

\* the pre-flight checks pass: pdf_files is listed, the loop over it starts
StartProcessing ==
  /\ pc = "start"
  /\ missing_vars = <<>>
  /\ directory.exists
  /\ directory.listing # <<>>
  /\ pdf_files' = directory.listing
  /\ outcome' = [kind |-> "found", files_found |-> Len(directory.listing)]
  /\ pc' = "files"
  /\ UNCHANGED <<env, directory, file_index, all_documents, processed_files,
                 file_log, i, total_uploaded, submitted, batch_log, raised_documents, faults,
                 fn_in, fn_out>>

----------------------------------------------------------------------------
(* main: one document *)

ChunkSuffixOneBased(idx, n) ==
  IF n > 1 THEN <<"_chunk", idx + 1>> ELSE <<"_single">>

\* chunk_suffix = f"_chunk{i}" if len(chunks) > 1 else "_single"
ChunkSuffix(idx, n) ==
  IF n > 1 THEN <<"_chunk", idx>> ELSE <<"_single">>

\* hashlib.md5(f"{file_path.name}{chunk_suffix}".encode()).hexdigest(): the
\* digest is known by the string that was hashed
Md5(name, suffix) == [name |-> name, suffix |-> suffix]

\* the document main builds for chunk idx of the n chunks of file
Document(file, metadata, chunks, idx) ==
  [id            |-> Md5(file.name, ChunkSuffix(idx, Len(chunks))),
   content       |-> chunks[idx + 1],
   document_type |-> metadata.document_type,
   institution   |-> metadata.institution,
   year          |-> metadata.year,
   chunk_index   |-> idx,
   total_chunks  |-> Len(chunks),
   file_path     |-> file.name]

\* chunk indices at which the runs of the model inject an embedding failure
\* or a failing file_path.stat()
FaultPoints == {0, 2}

\* the response of the embedding service for chunk idx: for the chunks in
\* failed the call raises (how = "raise") or returns an empty vector
EmbedResponse(failed, how, idx) ==
  IF idx \in failed
  THEN [raised |-> how = "raise", vector |-> <<>>]
  ELSE [raised |-> FALSE, vector |-> <<1>>]

HasEmbeddingsAlways(failed, how, idx) == TRUE

\* embeddings = get_embeddings(...); `if not embeddings: continue` not taken
HasEmbeddings(failed, how, idx) ==
  get_embeddings(EmbedResponse(failed, how, idx)) # <<>>

\* the chunk indices, in order, for which the loop over chunks reaches the
\* construction of the document
EmbeddedChunks(n, failed, how) ==
  SelectSeq([k \in 1..n |-> k - 1], LAMBDA idx : HasEmbeddings(failed, how, idx))

\* file_documents once the loop over chunks has built the documents of the
\* first `count` embedded chunks
FileDocuments(file, metadata, chunks, embedded, count) ==
  [k \in 1..count |-> Document(file, metadata, chunks, embedded[k])]

\* number of embedded chunks handled before file_path.stat() raises, when it
\* raises from chunk stat_from on; Len(embedded) + 1 when it never raises
FirstStatFailure(embedded, stat_from) ==
  IF \E k \in 1..Len(embedded) : embedded[k] >= stat_from
  THEN CHOOSE k \in 1..Len(embedded) :
         /\ embedded[k] >= stat_from
         /\ \A j \in 1..(k - 1) : embedded[j] < stat_from
  ELSE Len(embedded) + 1

InFiles == pc = "files" /\ file_index < Len(pdf_files)

CurrentFile == pdf_files[file_index + 1]

\* if not text: continue.  extracted is FALSE when extract_pdf_content
\* catches an error and returns ""
SkipFile ==
  /\ InFiles
  /\ \E extracted \in BOOLEAN :
       /\ (IF extracted THEN CurrentFile.tokens ELSE 0) = 0
       /\ faults' = faults + (IF extracted THEN 0 ELSE 1)
       /\ faults' <= MaxFaults
  /\ file_index' = file_index + 1
  /\ file_log' = Append(file_log,
       [name |-> CurrentFile.name, status |-> "skipped", chunks |-> 0,
        no_embedding |-> {}, documents |-> 0])
  /\ UNCHANGED <<pc, env, directory, pdf_files, all_documents,
                 processed_files, i, total_uploaded, submitted, batch_log, raised_documents,
                 outcome, fn_in, fn_out>>

ExtendKeepingOnlyNew(documents, file_documents) == file_documents

\* all_documents.extend(file_documents)
Extend(documents, file_documents) == documents \o file_documents

\* the try block runs to its end
CompleteFile ==
  /\ InFiles
  /\ CurrentFile.tokens > 0
  /\ \E tok_ok \in BOOLEAN, failed \in SUBSET FaultPoints, how \in {"raise", "empty"} :
       LET file == CurrentFile
           metadata == metadata_of[file]
           chunks == chunks_of[file, tok_ok]
           embedded == EmbeddedChunks(Len(chunks), failed, how)
           file_documents ==
             FileDocuments(file, metadata, chunks, embedded, Len(embedded))
       IN /\ \A idx \in failed : idx < Len(chunks)
          /\ faults' = faults + Cardinality(failed) + (IF tok_ok THEN 0 ELSE 1)
          /\ faults' <= MaxFaults
          /\ all_documents' = Extend(all_documents, file_documents)
          /\ file_log' = Append(file_log,
               [name |-> file.name, status |-> "completed",
                chunks |-> Len(chunks), no_embedding |-> failed,
                documents |-> Len(file_documents)])
  /\ processed_files' = processed_files + 1
  /\ file_index' = file_index + 1
  /\ UNCHANGED <<pc, env, directory, pdf_files, i, total_uploaded, submitted,
                 batch_log, raised_documents, outcome, fn_in, fn_out>>

AfterExceptionKeepsAssembled(documents, file_documents) ==
  documents \o file_documents

\* all_documents when the except clause is reached: extend was not executed,
\* file_documents is dropped
AfterException(documents, file_documents) == documents

\* get_esg_metadata or the call of chunk_text raises, before file_documents
\* exists: the except clause of the loop over files prints the error and
\* continues
FailBeforeChunks ==
  /\ InFiles
  /\ CurrentFile.tokens > 0
  /\ faults' = faults + 1
  /\ faults' <= MaxFaults
  /\ all_documents' = AfterException(all_documents, <<>>)
  /\ file_log' = Append(file_log,
       [name |-> CurrentFile.name, status |-> "error", chunks |-> 0,
        no_embedding |-> {}, documents |-> 0])
  /\ file_index' = file_index + 1
  /\ UNCHANGED <<pc, env, directory, pdf_files, processed_files, i,
                 total_uploaded, submitted, batch_log, raised_documents,
                 outcome, fn_in, fn_out>>

\* file_path.stat() raises while a document is built: the except clause of
\* the loop over files prints the error and continues
FailFile ==
  /\ InFiles
  /\ CurrentFile.tokens > 0
  /\ \E tok_ok \in BOOLEAN, failed \in SUBSET FaultPoints, how \in {"raise", "empty"},
        stat_from \in FaultPoints :
       LET file == CurrentFile
           metadata == metadata_of[file]
           chunks == chunks_of[file, tok_ok]
           embedded == EmbeddedChunks(Len(chunks), failed, how)
           first == FirstStatFailure(embedded, stat_from)
           file_documents ==
             FileDocuments(file, metadata, chunks, embedded, first - 1)
       IN /\ \A idx \in failed : idx < Len(chunks)
          /\ stat_from < Len(chunks)
          /\ first <= Len(embedded)
          /\ faults' = faults + 1 + Cardinality(failed) + (IF tok_ok THEN 0 ELSE 1)
          /\ faults' <= MaxFaults
          /\ all_documents' = AfterException(all_documents, file_documents)
          /\ file_log' = Append(file_log,
               [name |-> file.name, status |-> "error",
                chunks |-> Len(chunks),
                no_embedding |-> {idx \in failed : idx < embedded[first]},
                documents |-> Len(file_documents)])
  /\ file_index' = file_index + 1
  /\ UNCHANGED <<pc, env, directory, pdf_files,
                 processed_files, i, total_uploaded, submitted, batch_log, raised_documents,
                 outcome, fn_in, fn_out>>

----------------------------------------------------------------------------
(* main: upload *)

\* if all_documents: the upload loop starts
BeginUpload ==
  /\ pc = "files"
  /\ file_index = Len(pdf_files)
  /\ all_documents # <<>>
  /\ pc' = "upload"
  /\ i' = 0
  /\ total_uploaded' = 0
  /\ UNCHANGED <<env, directory, pdf_files, file_index, all_documents,
                 processed_files, file_log, submitted, batch_log, raised_documents, outcome,
                 faults, fn_in, fn_out>>

\* else: print("No documents to upload - all PDFs failed processing")
NoDocuments ==
  /\ pc = "files"
  /\ file_index = Len(pdf_files)
  /\ all_documents = <<>>
  /\ outcome' = [kind |-> "no_documents"]
  /\ pc' = "done"
  /\ UNCHANGED <<env, directory, pdf_files, file_index, all_documents,
                 processed_files, file_log, i, total_uploaded, submitted,
                 batch_log, raised_documents, faults, fn_in, fn_out>>

InUpload == pc = "upload" /\ i < Len(all_documents)

\* batch = all_documents[i:i + batch_size], as the positions it covers
BatchFirst == i + 1
BatchLastShort == Min(i + batch_size - 1, Len(all_documents))

BatchLast == Min(i + batch_size, Len(all_documents))
BatchLen == BatchLast - BatchFirst + 1
Batch == SubSeq(all_documents, BatchFirst, BatchLast)

\* the answers of the index for a batch of n documents, one succeeded flag
\* per document: all accepted, none accepted, every second one rejected
UploadResults(n) ==
  {[j \in 1..n |-> TRUE], [j \in 1..n |-> FALSE], [j \in 1..n |-> j % 2 = 1]}

SuccessCountAllOrNothing(result) ==
  IF \A j \in 1..Len(result) : result[j] THEN Len(result) ELSE 0

\* success_count = sum(1 for r in result if r.succeeded)
SuccessCount(result) == Cardinality({j \in 1..Len(result) : result[j]})

\* a fault of the upload service: the answer is not "all accepted"
UploadFault(result) == IF \A j \in 1..Len(result) : result[j] THEN 0 ELSE 1

\* upload_documents returns
UploadBatchReturns ==
  /\ InUpload
  /\ \E result \in UploadResults(BatchLen) :
       LET success_count == SuccessCount(result)
           error_count == BatchLen - success_count
       IN /\ faults' = faults + UploadFault(result)
          /\ faults' <= MaxFaults
          /\ total_uploaded' = total_uploaded + success_count
          /\ batch_log' = [batch_num |-> (i \div batch_size) + 1,
                           first |-> BatchFirst, last |-> BatchLast,
                           batch |-> Batch,
                           raised |-> FALSE, result |-> result,
                           success_count |-> success_count,
                           error_count |-> error_count]
  /\ i' = i + batch_size
  /\ submitted' = submitted + 1
  /\ UNCHANGED <<pc, env, directory, pdf_files, file_index, all_documents,
                 processed_files, file_log, raised_documents, outcome, fn_in,
                 fn_out>>

TotalAfterRaiseCountsBatch(total, n) == total + n

\* total_uploaded after upload_documents raised for a batch of n documents
TotalAfterRaise(total, n) == total

\* upload_documents raises: the except clause prints the error
UploadBatchRaises ==
  /\ InUpload
  /\ faults' = faults + 1
  /\ faults' <= MaxFaults
  /\ total_uploaded' = TotalAfterRaise(total_uploaded, BatchLen)
  /\ batch_log' = [batch_num |-> (i \div batch_size) + 1,
                   first |-> BatchFirst, last |-> BatchLast, batch |-> Batch,
                   raised |-> TRUE, result |-> <<>>,
                   success_count |-> 0, error_count |-> 0]
  /\ raised_documents' = raised_documents + BatchLen
  /\ i' = i + batch_size
  /\ submitted' = submitted + 1
  /\ UNCHANGED <<pc, env, directory, pdf_files, file_index, all_documents,
                 processed_files, file_log, outcome, fn_in, fn_out>>

\* the lines printed after the upload loop; failed_count is printed only
\* when total_uploaded < len(all_documents) (failed_printed)
FinalSummaryOfAttempts ==
  [kind            |-> "summary",
   files_processed |-> file_index,
   files_found     |-> Len(pdf_files),
   chunks_uploaded |-> Min(i, Len(all_documents)),
   chunks_total    |-> Len(all_documents),
   failed_printed  |-> FALSE,
   failed_count    |-> 0]

FinalSummary ==
  [kind            |-> "summary",
   files_processed |-> processed_files,
   files_found     |-> Len(pdf_files),
   chunks_uploaded |-> total_uploaded,
   chunks_total    |-> Len(all_documents),
   failed_printed  |-> total_uploaded < Len(all_documents),
   failed_count    |-> Len(all_documents) - total_uploaded]

FinishUpload ==
  /\ pc = "upload"
  /\ i >= Len(all_documents)
  /\ outcome' = FinalSummary
  /\ pc' = "done"
  /\ UNCHANGED <<env, directory, pdf_files, file_index, all_documents,
                 processed_files, file_log, i, total_uploaded, submitted,
                 batch_log, raised_documents, faults, fn_in, fn_out>>

NextMain ==
  \/ MissingConfig
  \/ DirectoryNotFound
  \/ NoPdfFiles
  \/ StartProcessing
  \/ SkipFile
  \/ CompleteFile
  \/ FailBeforeChunks
  \/ FailFile
  \/ BeginUpload
  \/ NoDocuments
  \/ UploadBatchReturns
  \/ UploadBatchRaises
  \/ FinishUpload

Init == InitMain /\ fn_in = [fn |-> "none"] /\ fn_out = [fn |-> "none"]

Next == NextMain

Spec == Init /\ [][Next]_vars

----------------------------------------------------------------------------
(* chunk_text and get_esg_metadata called on their own *)

\* main is not running
IdleMain ==
  /\ pc = "idle"
  /\ env = {}
  /\ directory = [exists |-> FALSE, listing |-> <<>>]
  /\ pdf_files = <<>>
  /\ file_index = 0
  /\ all_documents = <<>>
  /\ processed_files = 0
  /\ file_log = <<>>
  /\ i = 0
  /\ total_uploaded = 0
  /\ submitted = 0
  /\ batch_log = [batch_num |-> 0, first |-> 0, last |-> 0, batch |-> <<>>,
                  raised |-> FALSE, result |-> <<>>, success_count |-> 0,
                  error_count |-> 0]
  /\ raised_documents = 0
  /\ outcome = [kind |-> "none"]
  /\ faults = 0

\* token counts of the long texts given to chunk_text with the default
\* max_tokens and overlap; 650150 = 800 + 999 * 650 is the longest text that
\* 1000 windows cover
LongTexts == {50, 800, 801, 1200, 1450, 650150, 650151, 650800}

\* token counts of the texts given to chunk_text with max_tokens = 800 and
\* overlap = 0
PlainTexts == {800, 801, 1600, 1700}

ChunkInputs ==
  [fn : {"chunk_text"}, T : 0..MaxTokens, max_tokens : 0..MaxWindow,
   overlap : 0..MaxWindow, tok_ok : BOOLEAN]
  \cup
  [fn : {"chunk_text"}, T : LongTexts, max_tokens : {default_max_tokens},
   overlap : {default_overlap}, tok_ok : BOOLEAN]
  \cup
  [fn : {"chunk_text"}, T : PlainTexts, max_tokens : {default_max_tokens},
   overlap : {0}, tok_ok : BOOLEAN]

InitChunk == IdleMain /\ fn_in \in ChunkInputs /\ fn_out = [fn |-> "none"]

CallChunkText ==
  /\ fn_in.fn = "chunk_text"
  /\ fn_out.fn = "none"
  /\ fn_out' = [fn |-> "chunk_text",
                ret |-> chunk_text(fn_in.T, fn_in.max_tokens, fn_in.overlap,
                                   fn_in.tok_ok)]
  /\ UNCHANGED <<fn_in, pc, env, directory, pdf_files, file_index,
                 all_documents, processed_files, file_log, i, total_uploaded,
                 submitted, batch_log, raised_documents, outcome, faults>>

NextChunk == CallChunkText

SpecChunk == InitChunk /\ [][NextChunk]_vars

dot_pdf == <<".", "p", "d", "f">>

RECURSIVE NamesOf(_)
\* the concatenations of exactly k pieces
NamesOf(k) ==
  IF k = 0 THEN {<<>>}
  ELSE {p \o n : p \in NamePieces, n \in NamesOf(k - 1)}

\* the example of the specification, GRI_2023_climate_report.pdf
example_name ==
  <<"G", "R", "I", "_", "2", "0", "2", "3", "_", "c", "l", "i", "m", "a", "t", "e", "_", "r", "e", "p", "o", "r", "t", ".", "p", "d", "f">>

FileNames ==
  {n \o dot_pdf : n \in UNION {NamesOf(k) : k \in 1..MaxPieces}}
  \cup {example_name}

InitMeta ==
  /\ IdleMain
  /\ \E n \in FileNames : fn_in = [fn |-> "get_esg_metadata", name |-> n]
  /\ fn_out = [fn |-> "none"]

CallGetEsgMetadata ==
  /\ fn_in.fn = "get_esg_metadata"
  /\ fn_out.fn = "none"
  /\ fn_out' = [fn |-> "get_esg_metadata", ret |-> get_esg_metadata(fn_in.name)]
  /\ UNCHANGED <<fn_in, pc, env, directory, pdf_files, file_index,
                 all_documents, processed_files, file_log, i, total_uploaded,
                 submitted, batch_log, raised_documents, outcome, faults>>

NextMeta == CallGetEsgMetadata

SpecMeta == InitMeta /\ [][NextMeta]_vars

----------------------------------------------------------------------------
(* Properties of chunk_text, checked under SpecChunk *)

ChunkTextReturned == fn_out.fn = "chunk_text"

DefaultSettings == fn_in.max_tokens = 800 /\ fn_in.overlap = 150

\* C2: chunk_text never returns more than 1000 chunks, whatever the text,
\* max_tokens and overlap; and a tokenized text that needs more than 1000
\* windows at the default settings (more than 800 + 999 * 650 tokens) gives
\* exactly 1000 chunks and the truncation warning.
C2_CapEnforced ==
  ChunkTextReturned =>
    /\ Len(fn_out.ret.chunks) <= 1000
    /\ (fn_in.tok_ok /\ DefaultSettings /\ fn_in.T > 800 + 999 * 650)
         => Len(fn_out.ret.chunks) = 1000 /\ fn_out.ret.warned

\* a text one token longer than 1000 default windows cover has been chunked
C2_Witness ==
  /\ ChunkTextReturned
  /\ fn_in.tok_ok /\ DefaultSettings /\ fn_in.T = 650151
  /\ Len(fn_out.ret.chunks) = 1000
  /\ fn_out.ret.warned
  /\ fn_out.ret.chunks[1000].to < fn_in.T

\* C3: for a text of T <= max_tokens tokens (T = max_tokens and T = 0
\* included) chunk_text returns exactly one chunk, the input text itself.
C3_SingleChunk ==
  (ChunkTextReturned /\ fn_in.T <= fn_in.max_tokens) =>
    fn_out.ret.chunks = <<[whole |-> TRUE, from |-> 0, to |-> fn_in.T]>>

\* a tokenized text of exactly max_tokens tokens came back as one chunk
C3_Witness ==
  /\ ChunkTextReturned
  /\ fn_in.tok_ok
  /\ fn_in.T = fn_in.max_tokens /\ fn_in.T = 800
  /\ Len(fn_out.ret.chunks) = 1
  /\ fn_out.ret.chunks[1].whole

\* every token position of the text lies in a chunk
Covered(chunks, T) ==
  \A tok \in 0..(T - 1) :
    \E k \in 1..Len(chunks) : chunks[k].from <= tok /\ tok < chunks[k].to

SlidingWindowCase ==
  /\ ChunkTextReturned
  /\ fn_in.tok_ok
  /\ fn_in.T > fn_in.max_tokens
  /\ 0 <= fn_in.overlap /\ fn_in.overlap < fn_in.max_tokens

\* C4: for a tokenized text of T > max_tokens tokens and
\* 0 <= overlap < max_tokens, chunk k is the decoding of the window
\* [s_k, min(s_k + max_tokens, T)) with s_0 = 0 and s_(k+1) = end_k - overlap,
\* no chunk holds more than max_tokens tokens, and when the loop ended with
\* start >= T (not by the cap) every token position 0..T-1 lies in a chunk.
C4_WindowShape ==
  SlidingWindowCase =>
    LET chunks == fn_out.ret.chunks
        n == Len(chunks)
    IN /\ n >= 1
       /\ chunks[1].from = 0
       /\ \A k \in 1..n :
            /\ ~chunks[k].whole
            /\ chunks[k].to = Min(chunks[k].from + fn_in.max_tokens, fn_in.T)
            /\ chunks[k].to - chunks[k].from <= fn_in.max_tokens
            /\ k < n => chunks[k + 1].from = chunks[k].to - fn_in.overlap
       /\ fn_out.ret.last_start >= fn_in.T => Covered(chunks, fn_in.T)

\* a text of three windows was chunked without overlap, the loop ended at
\* the end of the text and the last window is the short one
C4_Witness ==
  /\ SlidingWindowCase
  /\ fn_in.T = 7 /\ fn_in.max_tokens = 3 /\ fn_in.overlap = 0
  /\ fn_out.ret.last_start >= fn_in.T
  /\ Len(fn_out.ret.chunks) = 3
  /\ fn_out.ret.chunks[3] = [whole |-> FALSE, from |-> 6, to |-> 7]

----------------------------------------------------------------------------
(* Properties of get_esg_metadata, checked under SpecMeta *)

MetadataReturned == fn_out.fn = "get_esg_metadata"

\* c and d are the same letter, whatever their case
SameLetter(c, d) ==
  \/ c = d
  \/ \E k \in 1..Len(LowerLetters) :
       {c, d} = {LowerLetters[k], UpperLetters[k]}

\* name contains the lower-case word kw, case-insensitively
ContainsIgnoringCase(name, kw) ==
  \E k \in 1..(Len(name) - Len(kw) + 1) :
    \A j \in 1..Len(kw) : SameLetter(name[k + j - 1], kw[j])

\* C5: for a file name that contains 'gri', 'sasb' or 'tcfd'
\* (case-insensitive), the institution, document_type and tags are those of
\* the first matching framework rule, gri before sasb before tcfd, whatever
\* company names or topic words the name also contains; and
\* GRI_2023_climate_report.pdf gives 'Global Reporting Initiative' and 2023.
C5_FrameworkFirst ==
  MetadataReturned =>
    LET name == fn_in.name
        m == fn_out.ret
    IN /\ ContainsIgnoringCase(name, <<"g", "r", "i">>) =>
            /\ m.institution = "Global Reporting Initiative"
            /\ m.document_type = "GRI Standards"
            /\ m.tags = "gri,standards,sustainability,reporting"
       /\ (/\ ~ContainsIgnoringCase(name, <<"g", "r", "i">>)
           /\ ContainsIgnoringCase(name, <<"s", "a", "s", "b">>)) =>
            /\ m.institution = "Sustainability Accounting Standards Board"
            /\ m.document_type = "SASB Standards"
            /\ m.tags = "sasb,standards,sustainability,accounting"
       /\ (/\ ~ContainsIgnoringCase(name, <<"g", "r", "i">>)
           /\ ~ContainsIgnoringCase(name, <<"s", "a", "s", "b">>)
           /\ ContainsIgnoringCase(name, <<"t", "c", "f", "d">>)) =>
            /\ m.institution = "Task Force on Climate-related Financial Disclosures"
            /\ m.document_type = "TCFD Framework"
            /\ m.tags = "tcfd,climate,risk,disclosure"
       /\ name = example_name =>
            /\ m.institution = "Global Reporting Initiative"
            /\ m.year = 2023

\* a name with a company, a topic word and an upper-case framework keyword
\* was classified by the framework rule
C5_Witness ==
  /\ MetadataReturned
  /\ fn_in.name = <<"T", "e", "s", "l", "a", "c", "l", "i", "m", "a", "t", "e", "G", "R", "I", ".", "p", "d", "f">>
  /\ fn_out.ret.institution = "Global Reporting Initiative"
  /\ fn_out.ret.document_type = "GRI Standards"

----------------------------------------------------------------------------
(* Properties of main, checked under Spec *)

\* the pre-flight checks passed: pdf_files was listed
PreflightPassed == pdf_files # <<>>

\* number of batches of at most 5 that n documents make
BatchesOf(n) == (n + 4) \div 5

\* C1: a run over a 1200-token file and a 50-token file, with an embedding
\* service that always succeeds and an index that accepts every document,
\* gives 2 chunks and 1 chunk, exactly 3 documents, 1 upload call, and a
\* summary of 2 files processed and 3 chunks uploaded.
C1_EndToEnd ==
  (pdf_files = <<f_long, f_short>> /\ faults = 0) =>
    /\ Len(file_log) >= 1 => file_log[1].chunks = 2
    /\ Len(file_log) >= 2 => file_log[2].chunks = 1
    /\ pc \in {"upload", "done"} => Len(all_documents) = 3
    /\ pc = "done" =>
         /\ submitted = 1
         /\ outcome.kind = "summary"
         /\ outcome.files_processed = 2
         /\ outcome.chunks_uploaded = 3

\* an upload call returned in this step
BatchReturned == submitted' = submitted + 1 /\ ~batch_log'.raised

\* an upload call raised in this step
BatchRaised == submitted' = submitted + 1 /\ batch_log'.raised

\* C6: when the upload call of a batch returns, total_uploaded grows by
\* exactly the number of items the index reported as succeeded, the failed
\* count printed for the batch is the batch length minus that number, and the
\* loop moves on to the next batch; at the end every batch was submitted.
C6_PartialBatch ==
  /\ [][BatchReturned =>
          LET reported == Cardinality({j \in 1..Len(batch_log'.result) :
                                         batch_log'.result[j]})
              length == Min(i + 5, Len(all_documents)) - i
          IN /\ Len(batch_log'.result) = length
             /\ total_uploaded' = total_uploaded + reported
             /\ batch_log'.error_count = length - reported
             /\ pc' = "upload" /\ i' = i + 5]_vars
  /\ [](outcome.kind = "summary" => submitted = BatchesOf(Len(all_documents)))

\* a first batch of 5 with 3 succeeded and 2 failed added 3, and the second
\* batch was submitted and added its own documents
C6_Witness ==
  /\ pc = "upload"
  /\ submitted = 2
  /\ batch_log.batch_num = 2 /\ ~batch_log.raised
  /\ batch_log.error_count = 0
  /\ batch_log.success_count >= 1
  /\ total_uploaded = 3 + batch_log.success_count

\* C7: when the upload call of a batch raises, total_uploaded is unchanged
\* and the loop moves on to the next batch; after the loop every batch was
\* submitted, total_uploaded <= number of documents, the documents of the
\* batches that raised are among the failed ones, and the failed count
\* printed is the number of documents minus total_uploaded.
C7_BatchRaises ==
  /\ [][BatchRaised =>
          /\ total_uploaded' = total_uploaded
          /\ all_documents' = all_documents
          /\ pc' = "upload" /\ i' = i + 5]_vars
  /\ [](outcome.kind = "summary" =>
          /\ submitted = BatchesOf(Len(all_documents))
          /\ total_uploaded <= Len(all_documents)
          /\ outcome.chunks_uploaded = total_uploaded
          /\ outcome.chunks_total = Len(all_documents)
          /\ outcome.chunks_total - outcome.chunks_uploaded >= raised_documents
          /\ outcome.failed_printed <=> total_uploaded < Len(all_documents)
          /\ outcome.failed_printed =>
               outcome.failed_count = Len(all_documents) - total_uploaded)

\* the upload of the first batch of 5 raised, the second batch was submitted
\* and accepted, and the summary counts the 5 as failed
C7_Witness ==
  /\ outcome.kind = "summary"
  /\ raised_documents = 5
  /\ submitted = 2
  /\ batch_log.batch_num = 2 /\ ~batch_log.raised
  /\ outcome.chunks_total = 6
  /\ outcome.chunks_uploaded = 1
  /\ outcome.failed_printed /\ outcome.failed_count = 5

\* the documents that all_documents holds for the file called name
DocumentsOf(name) == SelectSeq(all_documents, LAMBDA d : d.file_path = name)

\* C8: a chunk whose embedding call returns an empty vector, or raises, gets
\* no document and the other chunks of the file are still handled: a file
\* whose processing ran to its end contributes one document for every chunk
\* but those, so its document count is its chunk count minus the number of
\* chunks without embedding.
C8_EmptyEmbeddingSkipped ==
  \A f \in 1..Len(file_log) :
    file_log[f].status = "completed" =>
      LET docs == DocumentsOf(file_log[f].name)
      IN /\ file_log[f].documents = file_log[f].chunks
                                     - Cardinality(file_log[f].no_embedding)
         /\ Len(docs) = file_log[f].documents
         /\ {docs[k].chunk_index : k \in 1..Len(docs)} =
              (0..(file_log[f].chunks - 1)) \ file_log[f].no_embedding

\* the third chunk of a multi-chunk file had no embedding: the file gave one
\* document less than it has chunks, the chunks after it included
C8_Witness ==
  /\ Len(file_log) >= 1
  /\ file_log[1].status = "completed"
  /\ file_log[1].chunks > 3
  /\ file_log[1].no_embedding = {2}
  /\ file_log[1].documents = file_log[1].chunks - 1
  /\ all_documents[3].chunk_index = 3

C10_SummaryAlways ==
  (pc = "done" /\ PreflightPassed) => outcome.kind = "summary"

\* C10 as amended: no run that passed the pre-flight checks stops before
\* main is done; a run that produced at least one document ends with the
\* summary of files processed vs. found and chunks uploaded vs. produced, and
\* a run that produced none ends with the "no documents to upload"
\* diagnostic, which has no figures.
C10_SummaryWhenDocuments ==
  /\ (pc # "done") => ENABLED Next
  /\ (pc = "done" /\ PreflightPassed) =>
       IF all_documents # <<>>
       THEN outcome = [kind            |-> "summary",
                       files_processed |-> processed_files,
                       files_found     |-> Len(pdf_files),
                       chunks_uploaded |-> total_uploaded,
                       chunks_total    |-> Len(all_documents),
                       failed_printed  |-> total_uploaded < Len(all_documents),
                       failed_count    |-> Len(all_documents) - total_uploaded]
       ELSE outcome = [kind |-> "no_documents"]

\* a run ended with a summary that shows a partial success: one of two files
\* processed, none of its chunks uploaded
C10_Witness ==
  /\ pc = "done"
  /\ outcome.kind = "summary"
  /\ outcome.files_processed = 1 /\ outcome.files_found = 2
  /\ outcome.chunks_uploaded = 0 /\ outcome.chunks_total = 1

\* the set of the elements of a sequence
Range(seq) == {seq[k] : k \in 1..Len(seq)}

\* nothing was discovered, read, embedded or uploaded
NothingTouched ==
  /\ pdf_files = <<>> /\ file_index = 0 /\ file_log = <<>>
  /\ all_documents = <<>> /\ processed_files = 0
  /\ submitted = 0 /\ total_uploaded = 0 /\ faults = 0

\* C11 as stated: when any of the six values (index endpoint and key,
\* embedding endpoint and key, deployment name, API version) is absent, main
\* aborts before any file is discovered and lists exactly the missing ones.
C11_SixRequired ==
  (pc # "start" /\ env # EnvVars) =>
    /\ pc = "done"
    /\ outcome.kind = "missing_env"
    /\ Range(outcome.missing) = EnvVars \ env
    /\ NothingTouched

\* C11 as amended: when any of the four values main checks (index endpoint
\* and key, embedding endpoint and key) is absent, main aborts before any
\* file is discovered or read and before any embedding or upload call, and
\* lists exactly the absent ones of the four, in the order of required_vars;
\* the absence of the deployment name or of the API version, which have
\* defaults, neither aborts the run nor is listed.
C11_FourRequired ==
  LET Required == Range(required_vars)
  IN pc # "start" =>
       IF Required \subseteq env
       THEN outcome.kind # "missing_env"
       ELSE /\ pc = "done"
            /\ outcome.kind = "missing_env"
            /\ Range(outcome.missing) = Required \ env
            /\ Len(outcome.missing) = Cardinality(Required \ env)
            /\ \A j, k \in 1..Len(outcome.missing) :
                 j < k => \E a, b \in 1..Len(required_vars) :
                            /\ a < b
                            /\ required_vars[a] = outcome.missing[j]
                            /\ required_vars[b] = outcome.missing[k]
            /\ NothingTouched

\* with PDF files in the directory and everything but the two keys set, main
\* stopped at the pre-flight check and listed the two keys
C11_Witness ==
  /\ pc = "done"
  /\ directory.exists /\ directory.listing # <<>>
  /\ env = EnvVars \ {"AZURE_SEARCH_KEY", "AZURE_OPENAI_EMBEDDINGS_API_KEY"}
  /\ outcome = [kind |-> "missing_env",
                missing |-> <<"AZURE_SEARCH_KEY",
                              "AZURE_OPENAI_EMBEDDINGS_API_KEY">>]
  /\ NothingTouched

\* C12: for a tokenized text of T > max_tokens tokens and
\* 0 < overlap < max_tokens, the loop of chunk_text ends as soon as a window
\* ends at token T: that window is the last chunk, no window is returned
\* twice, and the truncation warning is given only when 1000 chunks were
\* returned and the last of them ends before token T.
C12_StopsAtEndOfText ==
  (SlidingWindowCase /\ fn_in.overlap > 0) =>
    LET chunks == fn_out.ret.chunks
        n == Len(chunks)
    IN /\ \A k \in 1..n : chunks[k].to = fn_in.T => k = n
       /\ Cardinality({chunks[k].from : k \in 1..n}) = n
       /\ fn_out.ret.warned => (n = 1000 /\ chunks[n].to < fn_in.T)

\* the processing of a file ended in this step without reaching the end of
\* the try block: the except clause of the loop over files was reached, or
\* extract_pdf_content caught an error and returned no text
FileFailed ==
  /\ Len(file_log') = Len(file_log) + 1
  /\ file_log'[Len(file_log')].status \in {"error", "skipped"}

BatchSubmitted == submitted' = submitted + 1

\* position in pdf_files of the file called name
FilePosition(name) ==
  CHOOSE p \in 1..Len(pdf_files) : pdf_files[p].name = name

\* C14: the upload loop issues its calls over consecutive batches: the call
\* number s + 1 carries the documents 5s + 1 .. min(5s + 5, n) of
\* all_documents, between 1 and 5 of them, and all_documents is not changed;
\* when the summary is printed exactly ceil(n / 5) calls were issued, so that
\* every document was submitted in exactly one batch and the batches in
\* submission order are all_documents; all_documents is in production order
\* (order of pdf_files, then chunk order within a file); and no call is
\* issued when all_documents is empty.
C14_BatchPartition ==
  /\ [][BatchSubmitted =>
          LET n == Len(all_documents)
              from == 5 * submitted + 1
              to == IF 5 * submitted + 5 <= n THEN 5 * submitted + 5 ELSE n
          IN /\ from <= n
             /\ batch_log'.batch = [k \in 1..(to - from + 1) |->
                                      all_documents[from + k - 1]]
             /\ Len(batch_log'.batch) \in 1..5
             /\ all_documents' = all_documents]_vars
  /\ [](/\ outcome.kind = "summary" =>
             /\ all_documents # <<>>
             /\ submitted = BatchesOf(Len(all_documents))
        /\ all_documents = <<>> => submitted = 0
        /\ \A k \in 1..(Len(all_documents) - 1) :
             LET d == all_documents[k]
                 e == all_documents[k + 1]
             IN IF d.file_path = e.file_path
                THEN d.chunk_index < e.chunk_index
                ELSE FilePosition(d.file_path) < FilePosition(e.file_path))

\* six documents of six files were uploaded in two calls, the second one
\* with the sixth document alone
C14_Witness ==
  /\ outcome.kind = "summary"
  /\ Len(all_documents) = 6
  /\ submitted = 2
  /\ batch_log.batch = <<all_documents[6]>>
  /\ all_documents[6].file_path = pdf_files[6].name

====
